---- MODULE Spec2Model ----
(***************************************************************************)
(* Entity lifecycle of the Fooddie backend: UsersService (user store,      *)
(* password hashing, role assignment) and RestaurantService (restaurant    *)
(* approval workflow).  Every service method is one atomic action, and the *)
(* three decisions on a request are also given step by step; the outcome   *)
(* of the last call is kept in `result`.  The repositories are             *)
(* functions from primary key to row; uuidv4 and the database's generated  *)
(* keys never repeat a value.                                              *)
(***************************************************************************)
EXTENDS Integers, Sequences, FiniteSets, TLC

VARIABLES
    users,          \* usersRepository: id -> [username, password, role, ...]
    roles,          \* rolesRepository: set of [id, name]
    uuidCount,      \* number of uuidv4() values drawn so far
    restaurants,    \* restaurantRepository: id -> restaurant row
    addresses,      \* addressRepository: id -> [street, latitude, longitude]
    bucket,         \* URLs of the objects held by the storage service
    nextRestaurant, \* number of restaurant rows inserted so far
    nextAddress,    \* number of address rows inserted so far
    nextUpload,     \* number of objects uploaded so far
    approvedOnce,   \* restaurants on which approveRestaurant has succeeded
    requests,       \* the decisions on a request that are between their
                    \* findOne and their save or delete
    result          \* outcome of the last service call, with the faults it met

userVars == <<users, roles, uuidCount>>
restaurantVars == <<restaurants, addresses, bucket, nextRestaurant,
                    nextAddress, nextUpload, approvedOnce, requests>>
vars == <<users, roles, uuidCount, restaurants, addresses, bucket,
          nextRestaurant, nextAddress, nextUpload, approvedOnce, requests,
          result>>

----------------------------------------------------------------------------
(* Bounds *)

\* number of uuidv4() calls a behaviour may make
MaxUuid == 1
\* number of restaurant rows a behaviour may insert
MaxRestaurants == 1
\* number of address rows a behaviour may insert
MaxAddresses == 1
\* number of objects a behaviour may upload
MaxUploads == 1
\* rows in the store a listing reads, and the highest page asked for
MaxRows == 3
MaxPage == 3

----------------------------------------------------------------------------
(* Values *)

\* a property that is absent from a DTO or from a loaded entity
Undefined == "undefined"
\* a column holding SQL NULL
Null == "null"

\* ids issued by the upstream identity provider
ExternalIds == {"u1"}

\* plaintext passwords a caller may supply
Plain == {"", "pw123"}

Usernames == {"alice"}

\* DefaultRole.USER
DefaultRoleUSER == "USER"

RoleUser == [id |-> "role-user", name |-> "USER"]
RoleAdmin == [id |-> "role-admin", name |-> "ADMIN"]
\* role ids a DTO may carry; "role-ghost" names no stored role
DtoRoleIds == {"role-admin", "role-ghost"}

Digits == <<"0", "1", "2", "3", "4", "5", "6", "7", "8", "9">>

\* bcrypt.hash(password, 10): version tag, cost and the salted digest of the
\* input; the digest is modelled by the input it is computed from
bcryptHash(password) == "$2a$" \o "10" \o "$" \o password

\* the n-th value returned by uuidv4(): 36 characters, version nibble 4
uuidv4(n) == "0000000" \o Digits[n + 1] \o "-0000-4000-8000-000000000000"

\* String.prototype.substring(0, end)
substring(s, end) == SubSeq(s, 1, IF end < Len(s) THEN end ELSE Len(s))

\* the length register and create cut a UUID to
IdLength == 28

\* GeneratedId without the truncation to IdLength characters
GeneratedId_Untruncated(n) == uuidv4(n)

\* uuidv4().substring(0, 28)
GeneratedId(n) == substring(uuidv4(n), IdLength)

\* JavaScript truthiness of an optional string property
Truthy(v) == v # Undefined /\ v # Null /\ v # ""

----------------------------------------------------------------------------
(* Repository primitives (TypeORM) *)

\* FindRoleById without the where clause: any stored role is returned
FindRoleById_AnyRole(roleId) == roles

\* rolesRepository.findOne({ where: { id } })
FindRoleById(roleId) == {r \in roles : r.id = roleId}
\* rolesRepository.findOne({ where: { name } })
FindRoleByName(name) == {r \in roles : r.name = name}

\* the modelled columns of a user row (email, provider and timestamps are
\* left out)
UserFields == {"username", "password", "role", "authProvider", "googleId"}

\* one column after saving: a property the entity does not define keeps the
\* stored value
MergeColumn(old, new) == IF new = Undefined THEN old ELSE new

\* Repository.save(entity): UPDATE of the row with the entity's primary key
\* when it exists, INSERT otherwise
Save(store, id, entity, fields) ==
    IF id \in DOMAIN store
    THEN [k \in DOMAIN store |->
            IF k = id
            THEN [f \in fields |-> MergeColumn(store[k][f], entity[f])]
            ELSE store[k]]
    ELSE [k \in DOMAIN store \cup {id} |->
            IF k = id
            THEN [f \in fields |-> MergeColumn(Null, entity[f])]
            ELSE store[k]]

\* usersRepository.save(user)
SaveUser(store, id, entity) == Save(store, id, entity, UserFields)

\* DeleteRow that affects no row
DeleteRow_Keeps(store, id) == store

\* Repository.delete(id)
DeleteRow(store, id) == [k \in DOMAIN store \ {id} |-> store[k]]

\* Object.assign(target, source) restricted to the modelled properties
ObjectAssign(target, source) ==
    [f \in DOMAIN target |->
        IF f \in DOMAIN source /\ source[f] # Undefined
        THEN source[f] ELSE target[f]]

----------------------------------------------------------------------------
(* DTOs *)

Opt(S) == S \cup {Undefined}

\* CreateUserDto; username, password and role are required
CreateUserDto ==
    [username : Usernames, password : Plain, role : DtoRoleIds]

\* UpdateUserDto: every property is optional
UpdateUserDto ==
    [id : Opt(ExternalIds), password : Opt(Plain), role : Opt(DtoRoleIds)]

\* ids a caller may name
CallIds == ExternalIds \cup {GeneratedId(n) : n \in 0..(MaxUuid - 1)}

\* the outcome of a call: the method, its id argument, whether it returned
\* (ok) or threw, the password and role its DTO carried, and the primary
\* key of the row it saved
NoError == "none"

NoResult == [op |-> "none", id |-> Undefined, ok |-> TRUE,
             pw |-> Undefined, role |-> Undefined, stored |-> Undefined,
             err |-> NoError, geo |-> "skipped", fault |-> "none"]

Outcome(op, id, ok, pw, role, stored) ==
    [op |-> op, id |-> id, ok |-> ok, pw |-> pw, role |-> role,
     stored |-> stored, err |-> NoError, geo |-> "skipped", fault |-> "none"]

\* the outcome of a call that threw: err is the cause the exception names
Thrown(outcome, cause) == [outcome EXCEPT !.ok = FALSE, !.err = cause]

\* the outcome of a call that reached its collaborators: what geocoding
\* answered ("skipped" when it was not asked) and the file whose upload threw
Observed(outcome, geo, fault) == [outcome EXCEPT !.geo = geo, !.fault = fault]

\* the causes the services' exceptions name
UserNotFound == "User not found"
RoleNotFound == "Role not found"
OwnerRequired == "Owner ID is required"
OwnerNotFound == "Owner not found"
UploadFailed == "File upload failed"
UpdateFailed == "Failed to update restaurant"
RestaurantNotFound == "Restaurant not found"
NotPendingRequest == "Restaurant is not in pending status"

\* the outcome of a RestaurantService call; the role slot holds the status
\* a creation DTO carried
ROutcome(op, id, ok, status, stored) ==
    Outcome(op, id, ok, Undefined, status, stored)

----------------------------------------------------------------------------
(* Initial state: the service is constructed over a database that is       *)
(* empty or already holds the administrator account u1.                    *)

SeededUser ==
    [username |-> "alice", password |-> bcryptHash("pw123"),
     role |-> "role-admin", authProvider |-> Null, googleId |-> Null]

InitUsers ==
    /\ roles \in {{RoleUser, RoleAdmin}, {RoleAdmin}}
    /\ users \in {[k \in S |-> SeededUser] : S \in {{}, {"u1"}}}
    /\ uuidCount = 0

----------------------------------------------------------------------------
(* UsersService *)

\* the entity returned by usersRepository.findOne({ where: { id } }); the
\* role relation is not loaded
LoadUser(id) ==
    [id |-> id, username |-> users[id].username,
     password |-> users[id].password, role |-> Undefined,
     authProvider |-> users[id].authProvider, googleId |-> users[id].googleId]

\* the entity returned with relations: ['role', 'role.permissions']
LoadUserWithRole(id) ==
    [id |-> id, username |-> users[id].username,
     password |-> users[id].password, role |-> users[id].role,
     authProvider |-> users[id].authProvider, googleId |-> users[id].googleId]

\* the password property of updateData after the hashing branch
HashIfPresent(password) ==
    IF Truthy(password) THEN bcryptHash(password) ELSE password

\* UpdateMeEntity that assigns the whole payload, role included
UpdateMeEntity_RoleKept(id, dto) ==
    ObjectAssign(LoadUser(id),
                 [dto EXCEPT !.password = HashIfPresent(dto.password)])

\* the entity updateMe saves: role is removed from the payload, the
\* password is hashed, the rest is assigned onto the loaded user
UpdateMeEntity(id, dto) ==
    ObjectAssign(LoadUser(id),
                 [dto EXCEPT !.role = Undefined,
                             !.password = HashIfPresent(dto.password)])

Users_updateMe(id, dto) ==
    IF id \notin DOMAIN users
    THEN /\ result' = Thrown(Outcome("Users.updateMe", id, FALSE, dto.password, dto.role, Undefined), UserNotFound)
         /\ UNCHANGED <<userVars, restaurantVars>>
    ELSE LET user == UpdateMeEntity(id, dto) IN
         /\ users' = SaveUser(users, user.id, user)
         /\ result' = Outcome("Users.updateMe", id, TRUE, dto.password, dto.role, user.id)
         /\ UNCHANGED <<roles, uuidCount, restaurantVars>>

\* the entity built by usersRepository.create({...dto, id, password, role})
NewUserEntity(dto, id, role) ==
    [id |-> id, username |-> dto.username,
     password |-> bcryptHash(dto.password), role |-> role.id,
     authProvider |-> Undefined, googleId |-> Undefined]

Users_create(dto) ==
    LET found == FindRoleById(dto.role) IN
    IF found = {}
    THEN /\ result' = Thrown(Outcome("Users.create", Undefined, FALSE, dto.password, dto.role, Undefined), RoleNotFound)
         /\ UNCHANGED <<userVars, restaurantVars>>
    ELSE /\ uuidCount < MaxUuid
         /\ LET userId == GeneratedId(uuidCount)
                user == NewUserEntity(dto, userId, CHOOSE r \in found : TRUE)
            IN /\ users' = SaveUser(users, userId, user)
               /\ result' = Outcome("Users.create", Undefined, TRUE, dto.password, dto.role, userId)
         /\ uuidCount' = uuidCount + 1
         /\ UNCHANGED <<roles, restaurantVars>>

\* the id register stores the user under
RegisterId(id) == IF Truthy(id) THEN id ELSE GeneratedId(uuidCount)

Users_register(dto, id) ==
    LET found == FindRoleByName(DefaultRoleUSER) IN
    IF found = {}
    THEN /\ result' = Thrown(Outcome("Users.register", id, FALSE, dto.password, dto.role, Undefined), RoleNotFound)
         /\ UNCHANGED <<userVars, restaurantVars>>
    ELSE /\ Truthy(id) \/ uuidCount < MaxUuid
         /\ LET user == NewUserEntity(dto, RegisterId(id), CHOOSE r \in found : TRUE)
            IN /\ users' = SaveUser(users, user.id, user)
               /\ result' = Outcome("Users.register", id, TRUE, dto.password, dto.role, user.id)
         /\ uuidCount' = IF Truthy(id) THEN uuidCount ELSE uuidCount + 1
         /\ UNCHANGED <<roles, restaurantVars>>

\* the entity update saves
UpdateEntity(id, dto) ==
    LET loaded == LoadUserWithRole(id)
        withRole == IF Truthy(dto.role)
                    THEN [loaded EXCEPT !.role = dto.role] ELSE loaded
    IN ObjectAssign(withRole,
                    [dto EXCEPT !.role = Undefined,
                                !.password = HashIfPresent(dto.password)])

\* what a failed update names: findOne throws before the role is looked up
UpdateUserCause(id) ==
    IF id \notin DOMAIN users THEN UserNotFound ELSE RoleNotFound

Users_update(id, dto) ==
    IF \/ id \notin DOMAIN users
       \/ (Truthy(dto.role) /\ FindRoleById(dto.role) = {})
    THEN /\ result' = Thrown(Outcome("Users.update", id, FALSE, dto.password, dto.role, Undefined), UpdateUserCause(id))
         /\ UNCHANGED <<userVars, restaurantVars>>
    ELSE LET user == UpdateEntity(id, dto) IN
         /\ users' = SaveUser(users, user.id, user)
         /\ result' = Outcome("Users.update", id, TRUE, dto.password, dto.role, user.id)
         /\ UNCHANGED <<roles, uuidCount, restaurantVars>>

Users_updatePassword(id, password) ==
    IF id \notin DOMAIN users
    THEN /\ result' = Thrown(Outcome("Users.updatePassword", id, FALSE, password, Undefined, Undefined), UserNotFound)
         /\ UNCHANGED <<userVars, restaurantVars>>
    ELSE LET user == [LoadUserWithRole(id) EXCEPT !.password = bcryptHash(password)] IN
         /\ users' = SaveUser(users, id, user)
         /\ result' = Outcome("Users.updatePassword", id, TRUE, password, Undefined, id)
         /\ UNCHANGED <<roles, uuidCount, restaurantVars>>

Users_remove(id) ==
    /\ users' = DeleteRow(users, id)
    /\ result' = Outcome("Users.remove", id, TRUE, Undefined, Undefined, Undefined)
    /\ UNCHANGED <<roles, uuidCount, restaurantVars>>

\* the provider and account id a social sign-in links to a user
ProviderArgs == {[provider |-> "google", googleId |-> "g-123"]}

Users_updateUserProvider(id, arg1) ==
    IF id \notin DOMAIN users
    THEN /\ result' = Thrown(Outcome("Users.updateUserProvider", id, FALSE, Undefined, Undefined, Undefined), UserNotFound)
         /\ UNCHANGED <<userVars, restaurantVars>>
    ELSE LET user == [LoadUser(id) EXCEPT !.authProvider = arg1.provider,
                                          !.googleId = arg1.googleId] IN
         /\ users' = SaveUser(users, id, user)
         /\ result' = Outcome("Users.updateUserProvider", id, TRUE, Undefined, Undefined, id)
         /\ UNCHANGED <<roles, uuidCount, restaurantVars>>

RegisterIds == ExternalIds \cup {"", Undefined}

NextUsers ==
    \/ \E id \in CallIds, dto \in UpdateUserDto : Users_updateMe(id, dto)
    \/ \E dto \in CreateUserDto : Users_create(dto)
    \/ \E dto \in CreateUserDto, id \in RegisterIds : Users_register(dto, id)
    \/ \E id \in CallIds, dto \in UpdateUserDto : Users_update(id, dto)
    \/ \E id \in CallIds, password \in Plain : Users_updatePassword(id, password)
    \/ \E id \in CallIds : Users_remove(id)

\* the user lifecycle together with the linking of a sign-in provider
NextAccounts ==
    \/ NextUsers
    \/ \E id \in CallIds, arg1 \in ProviderArgs :
          Users_updateUserProvider(id, arg1)

----------------------------------------------------------------------------
(* RestaurantService: values *)

\* RestaurantStatus
PENDING == "PENDING"
APPROVED == "APPROVED"
REJECTED == "REJECTED"
RestaurantStatus == {PENDING, APPROVED, REJECTED}

\* primary keys generated by the database on INSERT
RestaurantId(n) == "r" \o Digits[n + 1]
AddressId(n) == "a" \o Digits[n + 1]

RestaurantIds == {RestaurantId(n) : n \in 0..(MaxRestaurants - 1)}

\* owner ids a DTO may carry
OwnerIds == ExternalIds \cup {GeneratedId(0)}

\* the modelled columns of a restaurant row (its own latitude/longitude,
\* description and opening hours are left out)
RestaurantFields ==
    {"name", "status", "owner", "address", "avatar", "backgroundImage",
     "certificateImage"}

AddressFields == {"street", "latitude", "longitude"}

\* the three file parameters, in the order the service uploads them
Slots == <<"avatar", "backgroundImage", "certificateImage">>
SlotSet == {Slots[i] : i \in 1..3}
SlotIndex(slot) == CHOOSE i \in 1..3 : Slots[i] = slot
Folder(slot) ==
    CASE slot = "avatar" -> "restaurant-avatars"
      [] slot = "backgroundImage" -> "restaurant-backgrounds"
      [] slot = "certificateImage" -> "restaurant-certificates"

\* the public URL gcsService.uploadPublicFile returns for its n-th object
UploadUrl(slot, n) == Folder(slot) \o "/" \o Digits[n + 1]

\* no upload (or deletion) throws
NoFail == "none"

\* parseFloat on the coordinate strings a DTO may carry
parseFloat(str) ==
    CASE str = "10.50" -> "10.5"
      [] str = "106.70" -> "106.7"

\* geocodingService.geocode: coordinates, no result, or an exception
GeocodeOutcomes == {"coordinates", "none", "throws"}
GeocodedLat == "11.1"
GeocodedLng == "107.2"

\* a DTO that carries none of the modelled properties
EmptyRestaurantDto ==
    [ownerId |-> Undefined, name |-> Undefined, status |-> Undefined,
     address |-> Undefined, latitude |-> Undefined, longitude |-> Undefined]

\* CreateRestaurantDto as passed to create and requestRestaurant: with any
\* owner, with or without a status of its own and an address string
CreateRestaurantDto ==
    {[EmptyRestaurantDto EXCEPT !.ownerId = o, !.name = "Joe's",
                                !.status = st, !.address = a] :
        o \in Opt(OwnerIds), st \in Opt({PENDING}), a \in Opt({"12 Main St"})}

\* CreateRestaurantDto as sent with files: both coordinates, one or none
CreateRestaurantWithFilesDto ==
    {[EmptyRestaurantDto EXCEPT !.ownerId = o, !.name = "Joe's",
                                !.status = st] :
        o \in Opt(OwnerIds), st \in Opt({PENDING})}
    \cup {[EmptyRestaurantDto EXCEPT !.ownerId = o, !.name = "Joe's",
                                     !.latitude = "10.50", !.longitude = lng] :
        o \in ExternalIds, lng \in Opt({"106.70"})}

\* UpdateRestaurantDto: every property is optional; a request carries
\* nothing, a status, or a new owner and name
UpdateRestaurantDto ==
    {EmptyRestaurantDto}
    \cup {[EmptyRestaurantDto EXCEPT !.status = st] : st \in RestaurantStatus}
    \cup {[EmptyRestaurantDto EXCEPT !.ownerId = o, !.name = "Moe's"] :
             o \in OwnerIds}

AddressData == {[street |-> "5 Side St"]}
\* the optional addressData parameter when it is left out
NoAddressData == [street |-> Undefined]

----------------------------------------------------------------------------
(* RestaurantService: helpers *)

\* restaurantRepository.findOne({ where: { id }, relations: ['owner',
\* 'foods'] }): the columns and the owner; the address relation is not loaded
LoadRestaurant(id) ==
    [f \in RestaurantFields |->
        IF f = "address" THEN Undefined ELSE restaurants[id][f]]

\* the properties of a creation DTO that are columns of the restaurant
DtoColumns(dto) ==
    [f \in RestaurantFields |->
        IF f \in {"name", "status"} THEN dto[f] ELSE Undefined]

\* NewRestaurantEntity with the spread written last: the DTO's properties
\* replace owner, status and the rest
NewRestaurantEntity_DtoWins(dto, overrides) ==
    [f \in RestaurantFields |->
        IF DtoColumns(dto)[f] # Undefined THEN DtoColumns(dto)[f]
        ELSE IF f \in DOMAIN overrides THEN overrides[f] ELSE Undefined]

\* restaurantRepository.create({...dto, owner, status, ...}): properties
\* written after the spread replace the DTO's
NewRestaurantEntity(dto, overrides) == ObjectAssign(DtoColumns(dto), overrides)

\* addressRepository.create({ street }) with optional coordinates
NewAddressEntity(street, lat, lng) ==
    [street |-> street, latitude |-> lat, longitude |-> lng]

SaveRestaurant(store, id, entity) == Save(store, id, entity, RestaurantFields)
SaveAddress(store, id, entity) == Save(store, id, entity, AddressFields)

\* the files whose upload completed when the upload of failAt threw
Uploaded(files, failAt) ==
    IF failAt = NoFail THEN files
    ELSE {s \in files : SlotIndex(s) < SlotIndex(failAt)}

\* the URL of the object uploaded for slot s, given the uploaded slots
UrlOf(s, uploaded) ==
    UploadUrl(s, nextUpload +
                 Cardinality({t \in uploaded : SlotIndex(t) < SlotIndex(s)}))

\* UploadAborts with the upload error logged and dropped
UploadAborts_Ignored(failAt) == FALSE

\* the catch around the uploads of a creation request rethrows
UploadAborts(failAt) == failAt # NoFail

\* UpdateAborts with the error logged and dropped
UpdateAborts_Ignored(failAt) == FALSE

\* the catch around an update's uploads and save rethrows
UpdateAborts(failAt) == failAt # NoFail

\* GeocodedCoordinate that keeps the value whatever geocoding returned
GeocodedCoordinate_Always(outcome, value) == value

\* the coordinates geocoding leaves on an address
GeocodedCoordinate(outcome, value) ==
    IF outcome = "coordinates" THEN value ELSE Undefined

\* OwnerMissing that only asks for an ownerId and never looks the user up
OwnerMissing_RequiredOnly(dto) == ~Truthy(dto.ownerId)

\* owner validation shared by the creation paths
OwnerMissing(dto) == ~Truthy(dto.ownerId) \/ dto.ownerId \notin DOMAIN users

\* what a creation path names when owner validation fails
OwnerCause(dto) ==
    IF ~Truthy(dto.ownerId) THEN OwnerRequired ELSE OwnerNotFound

\* owner validation of the update paths: only a supplied ownerId is checked
NewOwnerMissing(dto) == Truthy(dto.ownerId) /\ dto.ownerId \notin DOMAIN users

\* what an update path names when it fails before touching anything
UpdateCause(id, dto) ==
    IF id \notin DOMAIN restaurants THEN RestaurantNotFound ELSE OwnerNotFound

\* the entity the update paths save: owner reassigned when supplied, new
\* URLs for the uploaded files, then the remaining DTO properties
UpdatedEntity(id, dto, urls) ==
    LET loaded == LoadRestaurant(id)
        owned == IF Truthy(dto.ownerId)
                 THEN [loaded EXCEPT !.owner = dto.ownerId] ELSE loaded
    IN ObjectAssign(ObjectAssign(owned, urls),
                    [name |-> dto.name, status |-> dto.status])

----------------------------------------------------------------------------
(* RestaurantService: operations *)

Restaurant_requestRestaurantWithFiles(dto, addressData, files, geo, failAt) ==
    IF OwnerMissing(dto)
    THEN /\ result' = Thrown(ROutcome("requestRestaurantWithFiles", Undefined, FALSE,
                               dto.status, Undefined), OwnerCause(dto))
         /\ UNCHANGED <<userVars, restaurantVars>>
    ELSE LET given == Truthy(dto.latitude) /\ Truthy(dto.longitude)
             address ==
                 IF given
                 THEN NewAddressEntity(addressData.street,
                                       parseFloat(dto.latitude),
                                       parseFloat(dto.longitude))
                 ELSE NewAddressEntity(addressData.street,
                                       GeocodedCoordinate(geo, GeocodedLat),
                                       GeocodedCoordinate(geo, GeocodedLng))
             addressId == AddressId(nextAddress)
             uploaded == Uploaded(files, failAt)
             urls == [s \in SlotSet |->
                         IF s \in uploaded THEN UrlOf(s, uploaded) ELSE ""]
             restaurant ==
                 NewRestaurantEntity(dto,
                     [avatar |-> urls["avatar"],
                      backgroundImage |-> urls["backgroundImage"],
                      certificateImage |-> urls["certificateImage"],
                      owner |-> dto.ownerId, address |-> addressId,
                      status |-> APPROVED])
             id == RestaurantId(nextRestaurant)
         IN
         /\ nextAddress < MaxAddresses
         /\ nextUpload + Cardinality(uploaded) <= MaxUploads
         /\ addresses' = SaveAddress(addresses, addressId, address)
         /\ nextAddress' = nextAddress + 1
         /\ bucket' = bucket \cup {urls[s] : s \in uploaded}
         /\ nextUpload' = nextUpload + Cardinality(uploaded)
         /\ IF UploadAborts(failAt)
            THEN /\ result' =
                        Observed(Thrown(ROutcome("requestRestaurantWithFiles",
                                                 Undefined, FALSE, dto.status,
                                                 Undefined), UploadFailed),
                                 IF given THEN "skipped" ELSE geo, failAt)
                 /\ UNCHANGED <<restaurants, nextRestaurant>>
            ELSE /\ nextRestaurant < MaxRestaurants
                 /\ restaurants' = SaveRestaurant(restaurants, id, restaurant)
                 /\ nextRestaurant' = nextRestaurant + 1
                 /\ result' =
                        Observed(ROutcome("requestRestaurantWithFiles",
                                          Undefined, TRUE, dto.status, id),
                                 IF given THEN "skipped" ELSE geo, failAt)
         /\ UNCHANGED <<userVars, approvedOnce, requests>>

\* deleteFile on the replaced files, in upload order, until failAt throws
DeletedUntil(replaced, failAt) ==
    IF failAt = NoFail THEN replaced
    ELSE {s \in replaced : SlotIndex(s) < SlotIndex(failAt)}

Restaurant_updateWithFiles(id, dto, files, failAt, deleteFailAt) ==
    IF id \notin DOMAIN restaurants \/ NewOwnerMissing(dto)
    THEN /\ result' = Thrown(ROutcome("updateWithFiles", id, FALSE, Undefined, Undefined), UpdateCause(id, dto))
         /\ UNCHANGED <<userVars, restaurantVars>>
    ELSE LET old == restaurants[id]
             uploaded == Uploaded(files, failAt)
             urls == [s \in SlotSet |->
                         IF s \in uploaded THEN UrlOf(s, uploaded) ELSE Undefined]
             replaced == {s \in files : Truthy(old[s])}
             deleted == DeletedUntil(replaced, deleteFailAt)
         IN
         /\ nextUpload + Cardinality(uploaded) <= MaxUploads
         /\ nextUpload' = nextUpload + Cardinality(uploaded)
         /\ IF UpdateAborts(failAt)
            THEN /\ deleteFailAt = NoFail
                 /\ bucket' = bucket \cup {urls[s] : s \in uploaded}
                 /\ result' =
                        Observed(Thrown(ROutcome("updateWithFiles", id, FALSE,
                                                 Undefined, Undefined),
                                        UpdateFailed), "skipped", failAt)
                 /\ UNCHANGED restaurants
            ELSE /\ deleteFailAt \in replaced \cup {NoFail}
                 /\ restaurants' =
                        SaveRestaurant(restaurants, id, UpdatedEntity(id, dto, urls))
                 /\ bucket' = (bucket \cup {urls[s] : s \in uploaded})
                                  \ {old[s] : s \in deleted}
                 /\ result' =
                        IF deleteFailAt = NoFail
                        THEN ROutcome("updateWithFiles", id, TRUE, Undefined, id)
                        ELSE Thrown(ROutcome("updateWithFiles", id, FALSE,
                                             Undefined, id), UpdateFailed)
         /\ UNCHANGED <<userVars, addresses, nextRestaurant, nextAddress,
                        approvedOnce, requests>>

Restaurant_updateWithAddressAndFiles(id, dto, addressData, geo, files, failAt, deleteFails) ==
    IF id \notin DOMAIN restaurants \/ NewOwnerMissing(dto)
    THEN /\ result' = Thrown(ROutcome("updateWithAddressAndFiles", id, FALSE, Undefined, Undefined), UpdateCause(id, dto))
         /\ UNCHANGED <<userVars, restaurantVars>>
    ELSE LET old == restaurants[id]
             loaded == LoadRestaurant(id)
             hasAddress == addressData # NoAddressData
             \* restaurant.address is never loaded, so a new row is created
             address ==
                 NewAddressEntity(addressData.street,
                                  GeocodedCoordinate(geo, GeocodedLat),
                                  GeocodedCoordinate(geo, GeocodedLng))
             addressId ==
                 IF Truthy(loaded.address) THEN loaded.address
                 ELSE AddressId(nextAddress)
             uploaded == Uploaded(files, failAt)
             urls == [s \in SlotSet |->
                         IF s \in uploaded THEN UrlOf(s, uploaded) ELSE Undefined]
             replaced == {s \in files : Truthy(old[s])}
             entity == UpdatedEntity(id, dto, urls)
         IN
         /\ nextUpload + Cardinality(uploaded) <= MaxUploads
         /\ nextUpload' = nextUpload + Cardinality(uploaded)
         /\ IF hasAddress
            THEN /\ nextAddress < MaxAddresses
                 /\ addresses' = SaveAddress(addresses, addressId, address)
                 /\ nextAddress' = nextAddress + 1
            ELSE UNCHANGED <<addresses, nextAddress>>
         /\ IF UpdateAborts(failAt)
            THEN /\ deleteFails = {}
                 /\ bucket' = bucket \cup {urls[s] : s \in uploaded}
                 /\ result' =
                        Observed(Thrown(ROutcome("updateWithAddressAndFiles",
                                                 id, FALSE, Undefined,
                                                 Undefined), UpdateFailed),
                                 IF hasAddress THEN geo ELSE "skipped", failAt)
                 /\ UNCHANGED restaurants
            ELSE /\ deleteFails \subseteq replaced
                 /\ restaurants' =
                        SaveRestaurant(restaurants, id,
                            IF hasAddress
                            THEN [entity EXCEPT !.address = addressId]
                            ELSE entity)
                 /\ bucket' = (bucket \cup {urls[s] : s \in uploaded})
                                  \ {old[s] : s \in replaced \ deleteFails}
                 /\ result' =
                        Observed(ROutcome("updateWithAddressAndFiles", id,
                                          TRUE, Undefined, id),
                                 IF hasAddress THEN geo ELSE "skipped", failAt)
         /\ UNCHANGED <<userVars, nextRestaurant, approvedOnce, requests>>

\* the restaurant create and requestRestaurant build: the DTO's columns,
\* then owner, status and (when an address string came along) the address
RequestedEntity(dto, status, addressId) ==
    NewRestaurantEntity(dto,
        [owner |-> dto.ownerId, status |-> status,
         address |-> IF Truthy(dto.address) THEN addressId ELSE Undefined])

\* addressRepository.save of the address made from the DTO's address string
SaveAddressString(dto) ==
    IF Truthy(dto.address)
    THEN /\ nextAddress < MaxAddresses
         /\ addresses' = SaveAddress(addresses, AddressId(nextAddress),
                NewAddressEntity(dto.address, Undefined, Undefined))
         /\ nextAddress' = nextAddress + 1
    ELSE UNCHANGED <<addresses, nextAddress>>

Restaurant_create(dto) ==
    IF OwnerMissing(dto)
    THEN /\ result' = Thrown(ROutcome("create", Undefined, FALSE, dto.status, Undefined), OwnerCause(dto))
         /\ UNCHANGED <<userVars, restaurantVars>>
    ELSE LET id == RestaurantId(nextRestaurant) IN
         /\ nextRestaurant < MaxRestaurants
         /\ SaveAddressString(dto)
         /\ restaurants' =
                SaveRestaurant(restaurants, id,
                    RequestedEntity(dto, APPROVED, AddressId(nextAddress)))
         /\ nextRestaurant' = nextRestaurant + 1
         /\ result' = ROutcome("create", Undefined, TRUE, dto.status, id)
         /\ UNCHANGED <<userVars, bucket, nextUpload, approvedOnce, requests>>

Restaurant_requestRestaurant(dto) ==
    IF OwnerMissing(dto)
    THEN /\ result' = Thrown(ROutcome("requestRestaurant", Undefined, FALSE,
                               dto.status, Undefined), OwnerCause(dto))
         /\ UNCHANGED <<userVars, restaurantVars>>
    ELSE LET id == RestaurantId(nextRestaurant) IN
         /\ nextRestaurant < MaxRestaurants
         /\ SaveAddressString(dto)
         /\ restaurants' =
                SaveRestaurant(restaurants, id,
                    RequestedEntity(dto, PENDING, AddressId(nextAddress)))
         /\ nextRestaurant' = nextRestaurant + 1
         /\ result' = ROutcome("requestRestaurant", Undefined, TRUE,
                               dto.status, id)
         /\ UNCHANGED <<userVars, bucket, nextUpload, approvedOnce, requests>>

\* NotPending without the status comparison: only the lookup can fail
NotPending_ExistsOnly(id) == id \notin DOMAIN restaurants

\* the guard of approveRestaurant, rejectRestaurant and
\* deleteRestaurantRequest: findOne throws or the status is not PENDING
NotPending(id) ==
    id \notin DOMAIN restaurants \/ restaurants[id].status # PENDING

\* what a failed approval, rejection or request deletion names
PendingCause(id) ==
    IF id \notin DOMAIN restaurants THEN RestaurantNotFound
    ELSE NotPendingRequest

Restaurant_deleteRestaurantRequest(id) ==
    IF NotPending(id)
    THEN /\ result' = Thrown(ROutcome("deleteRestaurantRequest", id, FALSE, Undefined,
                               Undefined), PendingCause(id))
         /\ UNCHANGED <<userVars, restaurantVars>>
    ELSE /\ restaurants' = DeleteRow(restaurants, id)
         /\ result' = ROutcome("deleteRestaurantRequest", id, TRUE, Undefined,
                               Undefined)
         /\ UNCHANGED <<userVars, addresses, bucket, nextRestaurant,
                        nextAddress, nextUpload, approvedOnce, requests>>

\* restaurant.status = RestaurantStatus.APPROVED on the loaded entity
ApprovedEntity(id) == [LoadRestaurant(id) EXCEPT !.status = APPROVED]

\* RejectedEntity with the status of approveRestaurant pasted in
RejectedEntity_Approves(id) == [LoadRestaurant(id) EXCEPT !.status = APPROVED]

\* restaurant.status = RestaurantStatus.REJECTED on the loaded entity
RejectedEntity(id) == [LoadRestaurant(id) EXCEPT !.status = REJECTED]

Restaurant_approveRestaurant(id) ==
    IF NotPending(id)
    THEN /\ result' = Thrown(ROutcome("approveRestaurant", id, FALSE, Undefined,
                               Undefined), PendingCause(id))
         /\ UNCHANGED <<userVars, restaurantVars>>
    ELSE /\ restaurants' = SaveRestaurant(restaurants, id, ApprovedEntity(id))
         /\ approvedOnce' = approvedOnce \cup {id}
         /\ result' = ROutcome("approveRestaurant", id, TRUE, Undefined, id)
         /\ UNCHANGED <<userVars, addresses, bucket, nextRestaurant,
                        nextAddress, nextUpload, requests>>

Restaurant_rejectRestaurant(id) ==
    IF NotPending(id)
    THEN /\ result' = Thrown(ROutcome("rejectRestaurant", id, FALSE, Undefined,
                               Undefined), PendingCause(id))
         /\ UNCHANGED <<userVars, restaurantVars>>
    ELSE /\ restaurants' = SaveRestaurant(restaurants, id, RejectedEntity(id))
         /\ result' = ROutcome("rejectRestaurant", id, TRUE, Undefined, id)
         /\ UNCHANGED <<userVars, addresses, bucket, nextRestaurant,
                        nextAddress, nextUpload, approvedOnce, requests>>

Restaurant_update(id, dto) ==
    IF id \notin DOMAIN restaurants \/ NewOwnerMissing(dto)
    THEN /\ result' = Thrown(ROutcome("update", id, FALSE, Undefined, Undefined), UpdateCause(id, dto))
         /\ UNCHANGED <<userVars, restaurantVars>>
    ELSE /\ restaurants' =
                SaveRestaurant(restaurants, id,
                    UpdatedEntity(id, dto, [s \in SlotSet |-> Undefined]))
         /\ result' = ROutcome("update", id, TRUE, Undefined, id)
         /\ UNCHANGED <<userVars, addresses, bucket, nextRestaurant,
                        nextAddress, nextUpload, approvedOnce, requests>>

Restaurant_remove(id) ==
    IF id \notin DOMAIN restaurants
    THEN /\ result' = Thrown(ROutcome("remove", id, FALSE, Undefined, Undefined), RestaurantNotFound)
         /\ UNCHANGED <<userVars, restaurantVars>>
    ELSE /\ restaurants' = DeleteRow(restaurants, id)
         /\ result' = ROutcome("remove", id, TRUE, Undefined, Undefined)
         /\ UNCHANGED <<userVars, addresses, bucket, nextRestaurant,
                        nextAddress, nextUpload, approvedOnce, requests>>

----------------------------------------------------------------------------
(* RestaurantService: approveRestaurant, rejectRestaurant and              *)
(* deleteRestaurantRequest as the two steps each one is made of: the       *)
(* awaited findOne with the status check that follows it, and the awaited  *)
(* save or delete.  Steps of different calls interleave.                   *)

Decisions == {"approveRestaurant", "rejectRestaurant", "deleteRestaurantRequest"}

\* a call that has not started
Idle ==
    [pc |-> "idle", id |-> Undefined, ok |-> FALSE,
     restaurant |-> [f \in RestaurantFields |-> Undefined]]

NoRequests == [d \in Decisions |-> Idle]

\* the call after findOne returned a pending restaurant
Loaded(id) ==
    [pc |-> "loaded", id |-> id, ok |-> FALSE, restaurant |-> LoadRestaurant(id)]

\* the call after it returned (ok) or threw
Done(request, ok) == [request EXCEPT !.pc = "done", !.ok = ok]

\* findOne and the status check of decision d
Decision_findOne(d, id) ==
    /\ requests[d].pc = "idle"
    /\ IF NotPending(id)
       THEN /\ requests' = [requests EXCEPT ![d] = Done([Idle EXCEPT !.id = id], FALSE)]
            /\ result' = Thrown(ROutcome(d, id, FALSE, Undefined, Undefined),
                                PendingCause(id))
       ELSE /\ requests' = [requests EXCEPT ![d] = Loaded(id)]
            /\ result' = result
    /\ UNCHANGED <<userVars, restaurants, addresses, bucket, nextRestaurant,
                   nextAddress, nextUpload, approvedOnce>>

\* restaurantRepository.save of the entity approveRestaurant loaded
Approve_save ==
    LET request == requests["approveRestaurant"] IN
    /\ request.pc = "loaded"
    /\ restaurants' = SaveRestaurant(restaurants, request.id,
                           [request.restaurant EXCEPT !.status = APPROVED])
    /\ approvedOnce' = approvedOnce \cup {request.id}
    /\ requests' = [requests EXCEPT !["approveRestaurant"] = Done(request, TRUE)]
    /\ result' = ROutcome("approveRestaurant", request.id, TRUE, Undefined, request.id)
    /\ UNCHANGED <<userVars, addresses, bucket, nextRestaurant, nextAddress,
                   nextUpload>>

\* restaurantRepository.save of the entity rejectRestaurant loaded
Reject_save ==
    LET request == requests["rejectRestaurant"] IN
    /\ request.pc = "loaded"
    /\ restaurants' = SaveRestaurant(restaurants, request.id,
                           [request.restaurant EXCEPT !.status = REJECTED])
    /\ requests' = [requests EXCEPT !["rejectRestaurant"] = Done(request, TRUE)]
    /\ result' = ROutcome("rejectRestaurant", request.id, TRUE, Undefined, request.id)
    /\ UNCHANGED <<userVars, addresses, bucket, nextRestaurant, nextAddress,
                   nextUpload, approvedOnce>>

\* restaurantRepository.delete(id) and the check of the affected rows
DeleteRequest_delete ==
    LET request == requests["deleteRestaurantRequest"]
        affected == IF request.id \in DOMAIN restaurants THEN 1 ELSE 0
    IN
    /\ request.pc = "loaded"
    /\ restaurants' = DeleteRow(restaurants, request.id)
    /\ requests' = [requests EXCEPT
                       !["deleteRestaurantRequest"] = Done(request, affected # 0)]
    /\ result' =
          IF affected = 0
          THEN Thrown(ROutcome("deleteRestaurantRequest", request.id, FALSE,
                               Undefined, Undefined), RestaurantNotFound)
          ELSE ROutcome("deleteRestaurantRequest", request.id, TRUE, Undefined,
                        Undefined)
    /\ UNCHANGED <<userVars, addresses, bucket, nextRestaurant, nextAddress,
                   nextUpload, approvedOnce>>

\* a request is filed and the three decisions on it run side by side
NextConcurrent ==
    \/ \E dto \in CreateRestaurantDto : Restaurant_requestRestaurant(dto)
    \/ \E d \in Decisions, id \in RestaurantIds : Decision_findOne(d, id)
    \/ Approve_save
    \/ Reject_save
    \/ DeleteRequest_delete

----------------------------------------------------------------------------
(* RestaurantService: paginated listings *)

\* the default values of the page and pageSize parameters
DefaultPage == 1
DefaultPageSize == 10

\* a parameter with a default value: <<>> stands for an argument left out
Arg(given, default) == IF given = <<>> THEN default ELSE given[1]

\* the stored ids in the order the store returns them
OrderedIds ==
    SelectSeq([n \in 1..10 |-> RestaurantId(n - 1)],
              LAMBDA id : id \in DOMAIN restaurants)

\* Matching with the where clause dropped: every stored row matches
Matching_Unfiltered(status) == OrderedIds

\* the where clause of a listing: a status, or Undefined for none
Matching(status) ==
    SelectSeq(OrderedIds,
              LAMBDA id : status = Undefined \/ restaurants[id].status = status)

\* skip and take applied to the matching rows
SkipTake(rows, skip, take) ==
    IF skip >= Len(rows) THEN <<>>
    ELSE SubSeq(rows, skip + 1,
                IF skip + take < Len(rows) THEN skip + take ELSE Len(rows))

\* MathCeil with the quotient rounded down
MathCeil_Floor(a, b) == a \div b

\* Math.ceil(a / b) for a >= 0 and b > 0
MathCeil(a, b) == IF a % b = 0 THEN a \div b ELSE (a \div b) + 1

\* the envelope a listing returns, with the arguments it was called with
Envelope(op, status, pageArg, pageSizeArg) ==
    LET page == Arg(pageArg, DefaultPage)
        pageSize == Arg(pageSizeArg, DefaultPageSize)
        rows == Matching(status)
    IN [op |-> op, id |-> Undefined, ok |-> TRUE, pw |-> Undefined,
        role |-> Undefined, stored |-> Undefined, err |-> NoError,
        geo |-> "skipped", fault |-> "none",
        pageArg |-> pageArg, pageSizeArg |-> pageSizeArg,
        items |-> SkipTake(rows, (page - 1) * pageSize, pageSize),
        totalItems |-> Len(rows),
        page |-> page,
        pageSize |-> pageSize,
        totalPages |-> MathCeil(Len(rows), pageSize)]

Restaurant_getRestaurantRequests(pageArg, pageSizeArg) ==
    /\ result' = Envelope("getRestaurantRequests", PENDING, pageArg, pageSizeArg)
    /\ UNCHANGED <<userVars, restaurantVars>>

Restaurant_findAllApproved(pageArg, pageSizeArg) ==
    /\ result' = Envelope("findAllApproved", APPROVED, pageArg, pageSizeArg)
    /\ UNCHANGED <<userVars, restaurantVars>>

Restaurant_findAll(pageArg, pageSizeArg) ==
    /\ result' = Envelope("findAll", Undefined, pageArg, pageSizeArg)
    /\ UNCHANGED <<userVars, restaurantVars>>

Restaurant_getPreview(pageArg, pageSizeArg) ==
    /\ result' = Envelope("getPreview", Undefined, pageArg, pageSizeArg)
    /\ UNCHANGED <<userVars, restaurantVars>>

\* the page and pageSize arguments of a call: left out, or a number
PageArgs == {<<>>} \cup {<<n>> : n \in 1..MaxPage}
PageSizeArgs == {<<>>} \cup {<<n>> : n \in 1..MaxRows}

ListOps == {"getRestaurantRequests", "findAllApproved", "findAll", "getPreview"}

NextListing ==
    \/ \E pageArg \in PageArgs, pageSizeArg \in PageSizeArgs :
          Restaurant_getRestaurantRequests(pageArg, pageSizeArg)
    \/ \E pageArg \in PageArgs, pageSizeArg \in PageSizeArgs :
          Restaurant_findAllApproved(pageArg, pageSizeArg)
    \/ \E pageArg \in PageArgs, pageSizeArg \in PageSizeArgs :
          Restaurant_findAll(pageArg, pageSizeArg)
    \/ \E pageArg \in PageArgs, pageSizeArg \in PageSizeArgs :
          Restaurant_getPreview(pageArg, pageSizeArg)

\* the sets of files a request may carry
FileSets == {{}, {"avatar"}, {"avatar", "certificateImage"}}

\* the outcomes of geocoding that a call can observe
GeocodeChoices(called) == IF called THEN GeocodeOutcomes ELSE {"none"}

NextRestaurant ==
    \/ \E dto \in CreateRestaurantWithFilesDto, addressData \in AddressData,
          files \in FileSets :
       \E geo \in GeocodeChoices(~(Truthy(dto.latitude) /\ Truthy(dto.longitude))),
          failAt \in files \cup {NoFail} :
          Restaurant_requestRestaurantWithFiles(dto, addressData, files,
                                                geo, failAt)
    \/ \E id \in RestaurantIds, dto \in UpdateRestaurantDto, files \in FileSets :
       \E failAt \in files \cup {NoFail}, deleteFailAt \in files \cup {NoFail} :
          Restaurant_updateWithFiles(id, dto, files, failAt, deleteFailAt)
    \/ \E id \in RestaurantIds, dto \in UpdateRestaurantDto,
          addressData \in AddressData \cup {NoAddressData}, files \in FileSets :
       \E geo \in GeocodeChoices(addressData # NoAddressData),
          failAt \in files \cup {NoFail}, deleteFails \in SUBSET files :
          Restaurant_updateWithAddressAndFiles(id, dto, addressData, geo,
                                               files, failAt, deleteFails)
    \/ \E dto \in CreateRestaurantDto : Restaurant_create(dto)
    \/ \E dto \in CreateRestaurantDto : Restaurant_requestRestaurant(dto)
    \/ \E id \in RestaurantIds : Restaurant_deleteRestaurantRequest(id)
    \/ \E id \in RestaurantIds : Restaurant_approveRestaurant(id)
    \/ \E id \in RestaurantIds : Restaurant_rejectRestaurant(id)
    \/ \E id \in RestaurantIds, dto \in UpdateRestaurantDto :
          Restaurant_update(id, dto)
    \/ \E id \in RestaurantIds : Restaurant_remove(id)

----------------------------------------------------------------------------
(* Specifications *)

InitRestaurants ==
    /\ restaurants = [k \in {} |-> Null]
    /\ addresses = [k \in {} |-> Null]
    /\ bucket = {}
    /\ nextRestaurant = 0
    /\ nextAddress = 0
    /\ nextUpload = 0
    /\ approvedOnce = {}
    /\ requests = NoRequests

Init == InitUsers /\ InitRestaurants /\ result = NoResult

Next == NextAccounts \/ NextRestaurant \/ NextListing \/ NextConcurrent

Spec == Init /\ [][Next]_vars

\* the user lifecycle on its own
UserSpec == Init /\ [][NextUsers]_vars

\* the user lifecycle together with the linking of a sign-in provider
AccountSpec == Init /\ [][NextAccounts]_vars

\* the restaurant workflow over a user store that holds u1 and no other user
InitSeeded ==
    /\ Init
    /\ users = [k \in {"u1"} |-> SeededUser]
    /\ roles = {RoleUser, RoleAdmin}

RestaurantSpec == InitSeeded /\ [][NextRestaurant]_vars

\* the decisions on a filed request, their steps interleaved
ConcurrentSpec == InitSeeded /\ [][NextConcurrent]_vars

\* the approval workflow: the operations that take no files
NextWorkflow ==
    \/ \E dto \in CreateRestaurantDto : Restaurant_create(dto)
    \/ \E dto \in CreateRestaurantDto : Restaurant_requestRestaurant(dto)
    \/ \E id \in RestaurantIds : Restaurant_deleteRestaurantRequest(id)
    \/ \E id \in RestaurantIds : Restaurant_approveRestaurant(id)
    \/ \E id \in RestaurantIds : Restaurant_rejectRestaurant(id)
    \/ \E id \in RestaurantIds, dto \in UpdateRestaurantDto :
          Restaurant_update(id, dto)
    \/ \E id \in RestaurantIds : Restaurant_remove(id)

WorkflowSpec == InitSeeded /\ [][NextWorkflow]_vars

\* the creation paths
NextCreation ==
    \/ \E dto \in CreateRestaurantWithFilesDto, addressData \in AddressData,
          files \in FileSets :
       \E geo \in GeocodeChoices(~(Truthy(dto.latitude) /\ Truthy(dto.longitude))),
          failAt \in files \cup {NoFail} :
          Restaurant_requestRestaurantWithFiles(dto, addressData, files,
                                                geo, failAt)
    \/ \E dto \in CreateRestaurantDto : Restaurant_create(dto)
    \/ \E dto \in CreateRestaurantDto : Restaurant_requestRestaurant(dto)
    \/ \E id \in RestaurantIds : Restaurant_remove(id)

CreationSpec == InitSeeded /\ [][NextCreation]_vars

\* a store of up to MaxRows restaurants in any status, owned by u1, as
\* requestRestaurant, approveRestaurant and rejectRestaurant leave them
ListedRestaurant(status) ==
    [name |-> "Joe's", status |-> status, owner |-> "u1", address |-> Null,
     avatar |-> Null, backgroundImage |-> Null, certificateImage |-> Null]

InitListing ==
    /\ InitUsers
    /\ users = [k \in {"u1"} |-> SeededUser]
    /\ roles = {RoleUser, RoleAdmin}
    /\ \E n \in 0..MaxRows :
          /\ nextRestaurant = n
          /\ \E status \in [{RestaurantId(k) : k \in 0..(n - 1)} -> RestaurantStatus] :
                restaurants = [id \in DOMAIN status |-> ListedRestaurant(status[id])]
    /\ addresses = [k \in {} |-> Null]
    /\ bucket = {}
    /\ nextAddress = 0
    /\ nextUpload = 0
    /\ approvedOnce = {id \in DOMAIN restaurants : restaurants[id].status = APPROVED}
    /\ requests = NoRequests
    /\ result = NoResult

\* the listings over a stored set of restaurants
ListingSpec == InitListing /\ [][NextListing]_vars

\* the ids of the rows a listing may hold
ListedIds == {RestaurantId(k) : k \in 0..(MaxRows - 1)}

\* a store of requests, some of them approved already
InitRequested ==
    /\ InitListing
    /\ \A id \in DOMAIN restaurants : restaurants[id].status # REJECTED

\* requests are filed and approved while the two filtered listings are read
NextRequested ==
    \/ \E dto \in CreateRestaurantDto : Restaurant_requestRestaurant(dto)
    \/ \E id \in ListedIds : Restaurant_approveRestaurant(id)
    \/ \E pageArg \in PageArgs, pageSizeArg \in PageSizeArgs :
          Restaurant_getRestaurantRequests(pageArg, pageSizeArg)
    \/ \E pageArg \in PageArgs, pageSizeArg \in PageSizeArgs :
          Restaurant_findAllApproved(pageArg, pageSizeArg)

RequestedSpec == InitRequested /\ [][NextRequested]_vars

\* a restaurant stored by an earlier requestRestaurantWithFiles that carried
\* an avatar and a certificate; its ids lie outside the ones handed out here
StockedId == RestaurantId(9)
StockedAddressId == AddressId(9)
StockedRestaurant ==
    [name |-> "Joe's", status |-> APPROVED, owner |-> "u1",
     address |-> StockedAddressId, avatar |-> UploadUrl("avatar", 8),
     backgroundImage |-> "",
     certificateImage |-> UploadUrl("certificateImage", 9)]
StockedAddress ==
    NewAddressEntity("5 Side St", GeocodedLat, GeocodedLng)

InitStocked ==
    /\ InitUsers
    /\ users = [k \in {"u1"} |-> SeededUser]
    /\ roles = {RoleUser, RoleAdmin}
    /\ restaurants = [k \in {StockedId} |-> StockedRestaurant]
    /\ addresses = [k \in {StockedAddressId} |-> StockedAddress]
    /\ bucket = {StockedRestaurant.avatar, StockedRestaurant.certificateImage}
    /\ nextRestaurant = 0
    /\ nextAddress = 0
    /\ nextUpload = 0
    /\ approvedOnce = {}
    /\ requests = NoRequests
    /\ result = NoResult

\* the ids an update request may name
UpdateIds == RestaurantIds \cup {StockedId}

\* the DTOs sent along with files: nothing, or a new owner and name
FileUpdateDto == {dto \in UpdateRestaurantDto : dto.status = Undefined}

\* the update paths that take files, over a stored restaurant
NextUpdate ==
    \/ \E id \in UpdateIds, dto \in FileUpdateDto, files \in FileSets :
       \E failAt \in files \cup {NoFail}, deleteFailAt \in files \cup {NoFail} :
          Restaurant_updateWithFiles(id, dto, files, failAt, deleteFailAt)
    \/ \E id \in UpdateIds, dto \in FileUpdateDto,
          addressData \in AddressData \cup {NoAddressData}, files \in FileSets :
       \E geo \in GeocodeChoices(addressData # NoAddressData),
          failAt \in files \cup {NoFail}, deleteFails \in SUBSET files :
          Restaurant_updateWithAddressAndFiles(id, dto, addressData, geo,
                                               files, failAt, deleteFails)

UpdateSpec == InitStocked /\ [][NextUpdate]_vars

\* the requests drawn for owner validation: an existing, an unknown or no
\* owner, with or without a file, sent to an object store and a geocoder
\* that answer
OwnerCreateDto == {dto \in CreateRestaurantDto : dto.status = Undefined}
OwnerCreateWithFilesDto ==
    {dto \in CreateRestaurantWithFilesDto :
        dto.status = Undefined /\ dto.latitude = Undefined}
OwnerFileSets == {{}, {"avatar"}}

\* every path that validates an owner, from an empty restaurant store
NextOwner ==
    \/ \E dto \in OwnerCreateWithFilesDto, addressData \in AddressData,
          files \in OwnerFileSets :
          Restaurant_requestRestaurantWithFiles(dto, addressData, files,
                                                "coordinates", NoFail)
    \/ \E dto \in OwnerCreateDto : Restaurant_create(dto)
    \/ \E dto \in OwnerCreateDto : Restaurant_requestRestaurant(dto)
    \/ \E id \in UpdateIds, dto \in FileUpdateDto, files \in OwnerFileSets :
          Restaurant_updateWithFiles(id, dto, files, NoFail, NoFail)
    \/ \E id \in UpdateIds, dto \in FileUpdateDto,
          addressData \in AddressData \cup {NoAddressData},
          files \in OwnerFileSets :
          Restaurant_updateWithAddressAndFiles(id, dto, addressData,
              IF addressData = NoAddressData THEN "none" ELSE "coordinates",
              files, NoFail, {})
    \/ \E id \in UpdateIds, dto \in FileUpdateDto :
          Restaurant_update(id, dto)

OwnerSpec == InitSeeded /\ [][NextOwner]_vars

----------------------------------------------------------------------------
(* Claims: restaurant workflow *)

\* C1: approveRestaurant(id) on an existing restaurant succeeds exactly when
\* its stored status is PENDING; on success the stored status is APPROVED;
\* on an APPROVED or REJECTED restaurant it fails and leaves the store as it
\* was.
C1_ApproveIffPending ==
    [][\A id \in RestaurantIds :
         (result'.op = "approveRestaurant" /\ result'.id = id
            /\ id \in DOMAIN restaurants)
         => /\ result'.ok <=> restaurants[id].status = PENDING
            /\ result'.ok => /\ id \in DOMAIN restaurants'
                             /\ restaurants'[id].status = APPROVED
            /\ restaurants[id].status \in {APPROVED, REJECTED}
                   => ~result'.ok /\ restaurants' = restaurants]_vars

\* a PENDING restaurant has just been approved
C1_Witness ==
    /\ result.op = "approveRestaurant"
    /\ result.ok
    /\ result.id \in DOMAIN restaurants
    /\ restaurants[result.id].status = APPROVED

\* C2: rejectRestaurant(id) on an existing restaurant succeeds exactly when
\* its stored status is PENDING; on success the stored status is REJECTED;
\* on an APPROVED or REJECTED restaurant it fails and leaves the store as it
\* was.
C2_RejectIffPending ==
    [][\A id \in RestaurantIds :
         (result'.op = "rejectRestaurant" /\ result'.id = id
            /\ id \in DOMAIN restaurants)
         => /\ result'.ok <=> restaurants[id].status = PENDING
            /\ result'.ok => /\ id \in DOMAIN restaurants'
                             /\ restaurants'[id].status = REJECTED
            /\ restaurants[id].status \in {APPROVED, REJECTED}
                   => ~result'.ok /\ restaurants' = restaurants]_vars

\* a PENDING restaurant has just been rejected
C2_Witness ==
    /\ result.op = "rejectRestaurant"
    /\ result.ok
    /\ result.id \in DOMAIN restaurants
    /\ restaurants[result.id].status = REJECTED

\* C3: deleteRestaurantRequest(id) on an existing restaurant succeeds, and
\* removes the row, exactly when its status is PENDING; on an APPROVED or
\* REJECTED restaurant it fails and the row stays as it was.
C3_DeleteRequestIffPending ==
    [][\A id \in RestaurantIds :
         (result'.op = "deleteRestaurantRequest" /\ result'.id = id
            /\ id \in DOMAIN restaurants)
         => /\ result'.ok <=> restaurants[id].status = PENDING
            /\ result'.ok
                  => /\ id \notin DOMAIN restaurants'
                     /\ \A k \in DOMAIN restaurants \ {id} :
                           k \in DOMAIN restaurants'
                              /\ restaurants'[k] = restaurants[k]
            /\ restaurants[id].status \in {APPROVED, REJECTED}
                   => ~result'.ok /\ restaurants' = restaurants]_vars

\* deleteRestaurantRequest has just removed a restaurant that was created
\* by requestRestaurant
C3_Witness ==
    /\ result.op = "deleteRestaurantRequest"
    /\ result.ok
    /\ result.id \notin DOMAIN restaurants
    /\ nextRestaurant > 0

\* C4: over any sequence of operations the stored status of a restaurant
\* only ever changes from PENDING to APPROVED or from PENDING to REJECTED.
C4_StatusOnlyLeavesPending ==
    [][\A id \in RestaurantIds :
         (/\ id \in DOMAIN restaurants
          /\ id \in DOMAIN restaurants'
          /\ restaurants'[id].status # restaurants[id].status)
         => /\ restaurants[id].status = PENDING
            /\ restaurants'[id].status \in {APPROVED, REJECTED}]_vars

\* C5: requestRestaurant with an existing owner stores the restaurant as
\* PENDING; an approveRestaurant that follows immediately succeeds and
\* leaves it APPROVED; every later approveRestaurant on it fails.
C5_RequestApproveOnce ==
    [][/\ (result'.op = "requestRestaurant" /\ result'.ok)
          => /\ result'.stored \in DOMAIN restaurants'
             /\ restaurants'[result'.stored].status = PENDING
       /\ (/\ result.op = "requestRestaurant" /\ result.ok
           /\ result'.op = "approveRestaurant"
           /\ result'.id = result.stored)
          => /\ result'.ok
             /\ restaurants'[result'.id].status = APPROVED
       /\ (result'.op = "approveRestaurant" /\ result'.id \in approvedOnce)
          => ~result'.ok]_vars

\* C6: a restaurant persisted by create or requestRestaurantWithFiles is a
\* new row whose status is APPROVED, whatever status the DTO carried.
C6_CreatedApproved ==
    [][(result'.op \in {"create", "requestRestaurantWithFiles"} /\ result'.ok)
         => /\ result'.stored \notin DOMAIN restaurants
            /\ result'.stored \in DOMAIN restaurants'
            /\ restaurants'[result'.stored].status = APPROVED]_vars

\* requestRestaurantWithFiles has just stored a restaurant from a DTO that
\* carried status PENDING
C6_Witness ==
    /\ result.op = "requestRestaurantWithFiles"
    /\ result.ok
    /\ result.role = PENDING
    /\ result.stored \in DOMAIN restaurants
    /\ restaurants[result.stored].status = APPROVED

----------------------------------------------------------------------------
(* Claims: user lifecycle *)

UserWriteOps ==
    {"Users.create", "Users.register", "Users.update", "Users.updateMe",
     "Users.updatePassword"}

\* C7: after any sequence of create, register, update, updateMe and
\* updatePassword, no stored password equals a plaintext a DTO may supply
\* (the empty string included), and the row a call saved with a password
\* holds the hash of that password.
C7_PasswordAlwaysHashed ==
    /\ \A k \in DOMAIN users : users[k].password \notin Plain
    /\ (result.op \in UserWriteOps /\ result.ok /\ result.pw # Undefined)
          => users[result.stored].password = bcryptHash(result.pw)

\* C8: a successful create or register adds exactly one user and leaves
\* every user stored before it unchanged.
C8_ExactlyOneNewUser ==
    [][(result'.op \in {"Users.create", "Users.register"} /\ result'.ok)
         => /\ Cardinality(DOMAIN users') = Cardinality(DOMAIN users) + 1
            /\ \A k \in DOMAIN users :
                  k \in DOMAIN users' /\ users'[k] = users[k]]_vars

\* C9: register without an id stores the user under a generated id of 28
\* characters that no stored user had; register with an id stores the user
\* under that id; either way the role is the default USER role, whatever
\* role the DTO carried.
C9_RegisterIdAndRole ==
    [][(result'.op = "Users.register" /\ result'.ok)
         => /\ result'.stored \in DOMAIN users'
            /\ users'[result'.stored].role = RoleUser.id
            /\ Truthy(result'.id) => result'.stored = result'.id
            /\ ~Truthy(result'.id) => /\ Len(result'.stored) = 28
                                      /\ result'.stored \notin DOMAIN users]_vars

\* register has just been called with no id and a DTO that asks for the
\* ADMIN role
C9_Witness ==
    /\ result.op = "Users.register"
    /\ result.ok
    /\ ~Truthy(result.id)
    /\ result.role = RoleAdmin.id
    /\ result.stored \in DOMAIN users
    /\ users[result.stored].role = RoleUser.id

\* C10: updateMe leaves the role of the user it is called for as it was,
\* whatever role the DTO carried.
C10_UpdateMeKeepsRole ==
    [][\A id \in CallIds :
         (result'.op = "Users.updateMe" /\ result'.id = id
            /\ id \in DOMAIN users)
         => /\ id \in DOMAIN users'
            /\ users'[id].role = users[id].role]_vars

\* updateMe has just succeeded for a USER with a DTO that asks for the
\* ADMIN role
C10_Witness ==
    /\ result.op = "Users.updateMe"
    /\ result.ok
    /\ result.role = RoleAdmin.id
    /\ result.id \in DOMAIN users
    /\ users[result.id].role = RoleUser.id

\* C11: when the role lookup finds no role (the DTO's role id for create,
\* the default USER role for register) the call fails with a role-not-found
\* error and no user record is created or modified.
C11_RoleMissingFails ==
    [][/\ (result'.op = "Users.create"
             /\ \A r \in roles : r.id # result'.role)
          => /\ ~result'.ok
             /\ result'.err = RoleNotFound
             /\ users' = users
       /\ (result'.op = "Users.register"
             /\ \A r \in roles : r.name # DefaultRoleUSER)
          => /\ ~result'.ok
             /\ result'.err = RoleNotFound
             /\ users' = users]_vars

\* register was refused for want of the USER role while a user is stored
C11_Witness ==
    /\ result.op = "Users.register"
    /\ ~result.ok
    /\ result.err = RoleNotFound
    /\ \A r \in roles : r.name # DefaultRoleUSER
    /\ DOMAIN users # {}

\* C12: in requestRestaurantWithFiles with an existing owner and no
\* caller-supplied coordinates, when geocoding throws or returns no result
\* and every upload succeeds, the call succeeds: an Address with null
\* latitude and longitude and a Restaurant referencing it are persisted.
C12_GeocodeFailureTolerated ==
    [][(/\ result'.op = "requestRestaurantWithFiles"
        /\ result'.geo \in {"none", "throws"}
        /\ result'.fault = NoFail)
       => /\ result'.ok
          /\ result'.stored \in DOMAIN restaurants' \ DOMAIN restaurants
          /\ restaurants'[result'.stored].owner \in DOMAIN users
          /\ LET a == restaurants'[result'.stored].address IN
                /\ a \in DOMAIN addresses' \ DOMAIN addresses
                /\ addresses'[a].latitude = Null
                /\ addresses'[a].longitude = Null]_vars

\* a request with files was stored with an address that has no coordinates
C12_Witness ==
    /\ result.op = "requestRestaurantWithFiles"
    /\ result.ok
    /\ result.geo = "throws"
    /\ result.stored \in DOMAIN restaurants
    /\ restaurants[result.stored].address \in DOMAIN addresses
    /\ addresses[restaurants[result.stored].address].latitude = Null
    /\ addresses[restaurants[result.stored].address].longitude = Null
    /\ bucket # {}

\* C13: in requestRestaurantWithFiles, when the upload of the avatar, the
\* background or the certificate fails, the whole creation request fails
\* and no Restaurant record is persisted.
C13_UploadFailureAborts ==
    [][(/\ result'.op = "requestRestaurantWithFiles"
        /\ result'.fault \in SlotSet)
       => /\ ~result'.ok
          /\ result'.err = UploadFailed
          /\ restaurants' = restaurants
          /\ nextRestaurant' = nextRestaurant]_vars

\* a creation request was refused because an upload failed after an earlier
\* file had been stored
C13_Witness ==
    /\ result.op = "requestRestaurantWithFiles"
    /\ ~result.ok
    /\ result.err = UploadFailed
    /\ result.fault = "certificateImage"
    /\ bucket # {}
    /\ DOMAIN restaurants = {}

\* C14: in updateWithFiles and updateWithAddressAndFiles the previously
\* referenced files are deleted only after the restaurant has been
\* persisted, and a failure of such a deletion is never propagated:
\* whenever persistence succeeded the operation returns the updated
\* restaurant successfully.
C14_CleanupNeverFails ==
    [][/\ \A id \in UpdateIds, dto \in FileUpdateDto, files \in FileSets,
            deleteFailAt \in SlotSet \cup {NoFail} :
            (/\ result'.op = "updateWithFiles" /\ result'.id = id
             /\ id \in DOMAIN restaurants
             /\ ~NewOwnerMissing(dto)
             /\ Restaurant_updateWithFiles(id, dto, files, NoFail, deleteFailAt))
            => result'.ok /\ result'.stored = id
       /\ \A id \in UpdateIds, dto \in FileUpdateDto, files \in FileSets,
            addressData \in AddressData \cup {NoAddressData},
            geo \in GeocodeOutcomes, deleteFails \in SUBSET SlotSet :
            (/\ result'.op = "updateWithAddressAndFiles" /\ result'.id = id
             /\ id \in DOMAIN restaurants
             /\ ~NewOwnerMissing(dto)
             /\ Restaurant_updateWithAddressAndFiles(id, dto, addressData, geo,
                                                     files, NoFail, deleteFails))
            => result'.ok /\ result'.stored = id
       /\ (result'.op \in {"updateWithFiles", "updateWithAddressAndFiles"}
             /\ bucket \ bucket' # {})
          => /\ result'.stored = result'.id
             /\ \A s \in SlotSet :
                   restaurants'[result'.id][s] \notin bucket \ bucket']_vars

\* C18: a failure to upload a replacement file during updateWithFiles or
\* updateWithAddressAndFiles is logged and ignored: the update still
\* completes successfully and the remaining DTO fields are persisted.
C18_UploadFailureIgnored ==
    [][(/\ result'.op \in {"updateWithFiles", "updateWithAddressAndFiles"}
        /\ result'.fault \in SlotSet)
       => /\ result'.ok
          /\ result'.stored = result'.id]_vars

\* C18 (amended): a failure to upload a replacement file during
\* updateWithFiles or updateWithAddressAndFiles aborts the update: the call
\* fails with the error of a failed update and the stored restaurant row is
\* left as it was, none of the DTO's fields being persisted.
C18_UploadFailureAbortsUpdate ==
    [][(/\ result'.op \in {"updateWithFiles", "updateWithAddressAndFiles"}
        /\ result'.fault \in SlotSet)
       => /\ ~result'.ok
          /\ result'.err = UpdateFailed
          /\ restaurants' = restaurants]_vars

\* an update was refused after one of its files had been uploaded, and the
\* stored restaurant is still the one it was
C18_Witness ==
    /\ result.op \in {"updateWithFiles", "updateWithAddressAndFiles"}
    /\ ~result.ok
    /\ result.err = UpdateFailed
    /\ result.fault = "certificateImage"
    /\ bucket \ {StockedRestaurant.avatar, StockedRestaurant.certificateImage} # {}
    /\ restaurants = [k \in {StockedId} |-> StockedRestaurant]

\* C15: for every list operation (findAll, findAllApproved,
\* getRestaurantRequests, getPreview) over T matching items with page size
\* P >= 1, the envelope has totalItems = T and totalPages = ceil(T / P); a
\* page beyond totalPages returns no items with the same totals; page and
\* pageSize default to 1 and 10.
C15_PaginationEnvelope ==
    result.op \in ListOps =>
        LET status == CASE result.op = "getRestaurantRequests" -> {PENDING}
                        [] result.op = "findAllApproved" -> {APPROVED}
                        [] OTHER -> RestaurantStatus
            T == Cardinality({id \in DOMAIN restaurants :
                                 restaurants[id].status \in status})
            P == result.pageSize
        IN /\ result.totalItems = T
           /\ result.totalPages * P >= T
           /\ (result.totalPages - 1) * P < T
           /\ result.page > result.totalPages => result.items = <<>>
           /\ result.page = IF result.pageArg = <<>> THEN 1 ELSE result.pageArg[1]
           /\ P = IF result.pageSizeArg = <<>> THEN 10 ELSE result.pageSizeArg[1]

\* three approved restaurants listed two to a page, and the third page asked
\* for: two pages in all and nothing on the third
C15_Witness ==
    /\ result.op = "findAllApproved"
    /\ result.totalItems = 3
    /\ result.pageSize = 2
    /\ result.totalPages = 2
    /\ result.page = 3
    /\ result.items = <<>>
    /\ Cardinality(DOMAIN restaurants) = 3

\* what a refused call leaves behind: an owner error, and the restaurants,
\* the addresses and the object store as they were
C16_Refused ==
    /\ ~result'.ok
    /\ result'.err \in {OwnerRequired, OwnerNotFound}
    /\ restaurants' = restaurants
    /\ addresses' = addresses
    /\ bucket' = bucket
    /\ nextUpload' = nextUpload

\* C16: every creation path (create, requestRestaurant,
\* requestRestaurantWithFiles) and every update that supplies a new ownerId
\* (update, updateWithFiles, updateWithAddressAndFiles) validates the owner:
\* when the ownerId is missing on creation or names no stored user, the
\* operation fails, no Restaurant or Address record is created or changed
\* and no file is uploaded.
C16_OwnerValidated ==
    [][/\ \A dto \in OwnerCreateDto :
            (/\ result'.op \in {"create", "requestRestaurant"}
             /\ ~Truthy(dto.ownerId) \/ dto.ownerId \notin DOMAIN users
             /\ Restaurant_create(dto) \/ Restaurant_requestRestaurant(dto))
            => C16_Refused
       /\ \A dto \in OwnerCreateWithFilesDto, addressData \in AddressData,
            files \in OwnerFileSets :
            (/\ result'.op = "requestRestaurantWithFiles"
             /\ ~Truthy(dto.ownerId) \/ dto.ownerId \notin DOMAIN users
             /\ Restaurant_requestRestaurantWithFiles(dto, addressData, files,
                                                      "coordinates", NoFail))
            => C16_Refused
       /\ \A dto \in FileUpdateDto :
            (/\ result'.op = "update"
             /\ result'.id \in DOMAIN restaurants
             /\ Truthy(dto.ownerId) /\ dto.ownerId \notin DOMAIN users
             /\ Restaurant_update(result'.id, dto))
            => C16_Refused
       /\ \A dto \in FileUpdateDto, files \in OwnerFileSets,
            addressData \in AddressData \cup {NoAddressData} :
            (/\ result'.op \in {"updateWithFiles", "updateWithAddressAndFiles"}
             /\ result'.id \in DOMAIN restaurants
             /\ Truthy(dto.ownerId) /\ dto.ownerId \notin DOMAIN users
             /\ \/ Restaurant_updateWithFiles(result'.id, dto, files,
                                               NoFail, NoFail)
                \/ Restaurant_updateWithAddressAndFiles(result'.id, dto,
                       addressData,
                       IF addressData = NoAddressData THEN "none"
                       ELSE "coordinates",
                       files, NoFail, {}))
            => C16_Refused]_vars

\* an update with an address and a file named an owner that is not stored,
\* and was refused
C16_Witness ==
    /\ result.op = "updateWithAddressAndFiles"
    /\ ~result.ok
    /\ result.err = OwnerNotFound
    /\ result.id \in DOMAIN restaurants

\* C17: a remove call for an id that matches no stored record affects zero
\* rows and fails with a not-found error rather than completing
\* successfully, in RestaurantService.remove and in UsersService.remove.
C17_RemoveMissingFails ==
    [][/\ (result'.op = "Users.remove" /\ result'.id \notin DOMAIN users)
          => ~result'.ok /\ result'.err = UserNotFound /\ users' = users
       /\ (result'.op = "remove" /\ result'.id \notin DOMAIN restaurants)
          => /\ ~result'.ok
             /\ result'.err = RestaurantNotFound
             /\ restaurants' = restaurants]_vars

\* C19: a user's id is assigned once and never changes: after any sequence
\* of update, updateMe, updatePassword and updateUserProvider with arbitrary
\* payloads the stored user still has the id it was created with, and no
\* other stored user's record has been overwritten.
C19_IdNeverChanges ==
    [][result'.op \in {"Users.update", "Users.updateMe",
                       "Users.updatePassword", "Users.updateUserProvider"}
       => /\ DOMAIN users' = DOMAIN users
          /\ \A k \in DOMAIN users \ {result'.id} : users'[k] = users[k]]_vars

\* the decisions that have returned successfully
C20_Succeeded == {d \in Decisions : requests[d].pc = "done" /\ requests[d].ok}

\* C20: when approveRestaurant, rejectRestaurant and deleteRestaurantRequest
\* run concurrently on the same PENDING restaurant, their reads and writes
\* interleaved in any order, at most one of them succeeds and the store ends
\* in the state that one request leaves; a restaurant is never seen to go
\* from APPROVED to REJECTED or to reappear after a successful
\* deleteRestaurantRequest.
C20_OneDecisionWins ==
    [][/\ Cardinality(C20_Succeeded') <= 1
       /\ \A id \in RestaurantIds :
            /\ (id \in DOMAIN restaurants /\ id \in DOMAIN restaurants'
                  /\ restaurants[id].status = APPROVED)
               => restaurants'[id].status # REJECTED
            /\ (requests["deleteRestaurantRequest"].pc = "done"
                  /\ requests["deleteRestaurantRequest"].ok
                  /\ requests["deleteRestaurantRequest"].id = id
                  /\ id \notin DOMAIN restaurants)
               => id \notin DOMAIN restaurants'
            /\ (\A d \in Decisions : requests'[d].pc = "done" /\ requests'[d].id = id)
               => /\ "approveRestaurant" \in C20_Succeeded'
                        => /\ id \in DOMAIN restaurants'
                           /\ restaurants'[id].status = APPROVED
                  /\ "rejectRestaurant" \in C20_Succeeded'
                        => /\ id \in DOMAIN restaurants'
                           /\ restaurants'[id].status = REJECTED
                  /\ "deleteRestaurantRequest" \in C20_Succeeded'
                        => id \notin DOMAIN restaurants']_vars

\* C21: restaurant operations that fail leave the Address store unchanged:
\* when requestRestaurantWithFiles fails no Address record has been
\* persisted, and when updateWithAddressAndFiles fails the restaurant's
\* stored Address is the same as before the call; equivalently, every
\* Address a creation path persists is referenced by a persisted Restaurant.
C21_FailureLeavesAddresses ==
    [][/\ (result'.op \in {"requestRestaurantWithFiles",
                            "updateWithAddressAndFiles"}
             /\ ~result'.ok)
          => addresses' = addresses
       /\ result'.op \in {"requestRestaurantWithFiles", "create",
                           "requestRestaurant"}
          => \A a \in DOMAIN addresses' \ DOMAIN addresses :
                \E r \in DOMAIN restaurants' : restaurants'[r].address = a]_vars

\* the ids on the page a listing returned
C22_Listed == {result.items[i] : i \in 1..Len(result.items)}

\* the page a listing returned holds every matching row
C22_WholeList == result.page = 1 /\ result.pageSize >= result.totalItems

====
